---- MODULE Spec2Model ----
(***************************************************************************)
(* Access-control and audit core of the visitor-management application:    *)
(* the user_roles / audit_logs / webhook_settings / visitors tables with   *)
(* their row-level-security policies and triggers, and the client hooks    *)
(* (useUserManagement, useWebhookSettings, useVisitorsDB) that issue the   *)
(* requests.  One action is one database statement (a PostgREST request    *)
(* is its own transaction); a hook that awaits two requests is two steps.  *)
(***************************************************************************)
EXTENDS Integers, Sequences, FiniteSets, TLC

\* ------------------------------------------------------------------ bounds
MaxAudit == 4
MaxWebhooks == 2
MaxVisitors == 2
MaxPreRegs == 2
MaxClock == 2

\* ------------------------------------------------------------- value sets
\* ids of auth.users rows, in the order they are handed out
PrincipalIds == <<"u1", "u2", "u3">>
Principals == {PrincipalIds[i] : i \in 1..Len(PrincipalIds)}
NULL == "NULL"
EMPTY == ""
app_role == {"admin", "receptionist", "user"}

\* WebhookFormData submitted to addWebhook
WebhookForms ==
    {[name |-> "front-desk", webhookType |-> "slack", isActive |-> TRUE,
      notifyOnCheckin |-> TRUE, notifyOnCheckout |-> FALSE],
     [name |-> "security", webhookType |-> "teams", isActive |-> FALSE,
      notifyOnCheckin |-> TRUE, notifyOnCheckout |-> TRUE]}

\* Partial<WebhookFormData> submitted to updateWebhook: one field each
WebhookPatches ==
    {[field |-> "name", value |-> "security"]}
    \cup {[field |-> f, value |-> b] :
            f \in {"isActive", "notifyOnCheckin", "notifyOnCheckout"}, b \in BOOLEAN}

JNull == <<>>
jsonb_build_object(obj) == <<obj>>

VARIABLES
    auth_users,        \* sequence of principal ids, in sign-up order
    user_roles,        \* set of rows [user_id, role]
    audit_logs,        \* sequence of audit rows, in insertion order
    webhook_settings,  \* set of rows [id, name, webhook_type, is_active, notify_on_*]
    next_webhook_id,   \* ids handed out so far (gen_random_uuid never repeats)
    visitors,          \* set of rows [id, created_by, status, check_out_time]
    session,           \* per principal: position inside updateUserRole
    mutations,         \* history: row mutations of audited tables that took effect
    last,              \* history: the request served by the latest step
    pre_registrations, \* set of rows [id, host_user_id, status]
    visitorsState,     \* per principal: the visitors list held by useVisitorsDB
    clock,             \* number of timestamps handed out by new Date()
    response,          \* history: outcome of the latest edge-function or hook call
    invocations,       \* history: functions.invoke calls issued by the hooks
    tx                 \* per principal: its database transaction in flight

vars == <<auth_users, user_roles, audit_logs, webhook_settings, next_webhook_id,
          visitors, session, mutations, last, pre_registrations, visitorsState,
          clock, response, invocations, tx>>

\* state of the pre-registration, check-out and notification paths
ext == <<pre_registrations, visitorsState, clock, response, invocations, tx>>

Range(s) == {s[i] : i \in 1..Len(s)}
Authenticated == Range(auth_users)

RECURSIVE SeqOfSet(_)
SeqOfSet(S) == IF S = {} THEN {<<>>}
               ELSE UNION {{<<x>> \o t : t \in SeqOfSet(S \ {x})} : x \in S}

Tail_(s, n) == SubSeq(s, n + 1, Len(s))
IsPrefix(s, t) == Len(s) <= Len(t) /\ SubSeq(t, 1, Len(s)) = s

\* ------------------------------------------------- role predicates (SQL)
has_role(_user_id, _role) ==
    \E row \in user_roles : row.user_id = _user_id /\ row.role = _role

is_staff(_user_id) ==
    \E row \in user_roles : row.user_id = _user_id /\ row.role \in {"admin", "receptionist"}

\* AuthContext.isAdmin of the signed-in principal
isAdmin(uid) == has_role(uid, "admin")

RolesOf(uid) == {row \in user_roles : row.user_id = uid}

\* fetchUsers: roleMap.set per row (a later row overwrites an earlier one),
\* then roleMap.get(profile.id) || 'user'.  The row order of the select is
\* not fixed, so the result is one of these.
getRole(uid) == IF RolesOf(uid) = {} THEN {"user"} ELSE {row.role : row \in RolesOf(uid)}

\* ------------------------------------------------------- policies (RLS)
RolesInsertPolicy_NoSelfCheck(uid, row) == has_role(uid, "admin")
RolesInsertPolicy(uid, row) == has_role(uid, "admin") /\ row.user_id # uid
RolesDeletePolicy(uid, row) == has_role(uid, "admin") /\ row.user_id # uid
RolesUpdatePolicy(uid, row) == FALSE
RolesUniqueOk(row) == row \notin user_roles

AuditInsertPolicy(uid, row) == FALSE
AuditUpdatePolicy(uid, row) == FALSE
AuditDeletePolicy_AdminsMayDelete(uid, row) == has_role(uid, "admin")
AuditDeletePolicy(uid, row) == FALSE

WebhookPolicy(uid, row) == has_role(uid, "admin")

\* SQL equality: never true when a side is null
SqlEq(a, b) == a # NULL /\ b # NULL /\ a = b

VisitorsInsertPolicy(uid, row) == is_staff(uid)
VisitorsSelectPolicy_StaffSeeAll(uid, row) == is_staff(uid)
\* the two permissive SELECT policies of visitors, or-ed
VisitorsSelectPolicy(uid, row) ==
    \/ has_role(uid, "admin")
    \/ SqlEq(row.created_by, uid)

\* ---------------------------------------------------------- audit writer
create_audit_log(log, p_user_id, p_action, p_resource_type, p_resource_id, p_old_values, p_new_values, p_metadata) ==
    Append(log, [user_id |-> p_user_id, action |-> p_action,
                 resource_type |-> p_resource_type, resource_id |-> p_resource_id,
                 old_values |-> p_old_values, new_values |-> p_new_values,
                 metadata |-> p_metadata])

log_role_changes_DeleteReadsNew(log, TG_OP, uid, OLD_, NEW_) ==
    IF TG_OP = "INSERT" THEN
        create_audit_log(log, uid, "role_assigned", "user_roles", NEW_.user_id, JNull,
            jsonb_build_object([role |-> NEW_.role, user_id |-> NEW_.user_id]),
            jsonb_build_object([performed_by |-> uid]))
    ELSE IF TG_OP = "DELETE" THEN
        create_audit_log(log, uid, "role_removed", "user_roles", NULL,
            jsonb_build_object([role |-> NULL, user_id |-> NULL]), JNull,
            jsonb_build_object([performed_by |-> uid]))
    ELSE
        create_audit_log(log, uid, "role_updated", "user_roles", NEW_.user_id,
            jsonb_build_object([role |-> OLD_.role]),
            jsonb_build_object([role |-> NEW_.role]),
            jsonb_build_object([performed_by |-> uid]))

log_role_changes(log, TG_OP, uid, OLD_, NEW_) ==
    IF TG_OP = "INSERT" THEN
        create_audit_log(log, uid, "role_assigned", "user_roles", NEW_.user_id, JNull,
            jsonb_build_object([role |-> NEW_.role, user_id |-> NEW_.user_id]),
            jsonb_build_object([performed_by |-> uid]))
    ELSE IF TG_OP = "DELETE" THEN
        create_audit_log(log, uid, "role_removed", "user_roles", OLD_.user_id,
            jsonb_build_object([role |-> OLD_.role, user_id |-> OLD_.user_id]), JNull,
            jsonb_build_object([performed_by |-> uid]))
    ELSE
        create_audit_log(log, uid, "role_updated", "user_roles", NEW_.user_id,
            jsonb_build_object([role |-> OLD_.role]),
            jsonb_build_object([role |-> NEW_.role]),
            jsonb_build_object([performed_by |-> uid]))

log_webhook_changes_UpdateNotLogged(log, TG_OP, uid, OLD_, NEW_) ==
    IF TG_OP = "INSERT" THEN
        create_audit_log(log, uid, "webhook_created", "webhook_settings", NEW_.id, JNull,
            jsonb_build_object([name |-> NEW_.name, webhook_type |-> NEW_.webhook_type,
                                is_active |-> NEW_.is_active]), JNull)
    ELSE IF TG_OP = "DELETE" THEN
        create_audit_log(log, uid, "webhook_deleted", "webhook_settings", OLD_.id,
            jsonb_build_object([name |-> OLD_.name, webhook_type |-> OLD_.webhook_type]),
            JNull, JNull)
    ELSE log

log_webhook_changes(log, TG_OP, uid, OLD_, NEW_) ==
    IF TG_OP = "INSERT" THEN
        create_audit_log(log, uid, "webhook_created", "webhook_settings", NEW_.id, JNull,
            jsonb_build_object([name |-> NEW_.name, webhook_type |-> NEW_.webhook_type,
                                is_active |-> NEW_.is_active]), JNull)
    ELSE IF TG_OP = "DELETE" THEN
        create_audit_log(log, uid, "webhook_deleted", "webhook_settings", OLD_.id,
            jsonb_build_object([name |-> OLD_.name, webhook_type |-> OLD_.webhook_type]),
            JNull, JNull)
    ELSE
        create_audit_log(log, uid, "webhook_updated", "webhook_settings", NEW_.id,
            jsonb_build_object([name |-> OLD_.name, is_active |-> OLD_.is_active]),
            jsonb_build_object([name |-> NEW_.name, is_active |-> NEW_.is_active]), JNull)

\* audit_role_changes fired FOR EACH ROW of a delete, in the order rows were hit
RECURSIVE LogRoleDeletes(_, _, _)
LogRoleDeletes(log, uid, rows) ==
    IF rows = <<>> THEN log
    ELSE LogRoleDeletes(log_role_changes(log, "DELETE", uid, Head(rows), Head(rows)),
                        uid, Tail(rows))

Mut(action, uid, resource_id) ==
    [action |-> action, user_id |-> uid, resource_id |-> resource_id]

RECURSIVE MutDeletes(_, _, _)
MutDeletes(m, uid, rows) ==
    IF rows = <<>> THEN m
    ELSE MutDeletes(Append(m, Mut("role_removed", uid, Head(rows).user_id)), uid, Tail(rows))

\* ids of webhook_settings rows, in the order gen_random_uuid hands them out
WebhookIds == <<"w1", "w2", "w3">>

\* ------------------------------------------------------- history records
\* admin / self / known: whether the caller held an admin row, named itself
\* as target, and named an existing principal, when the request arrived.
\* The identities are kept only for a request that changed a table.
Req(op, actor, target, role, ok, fault, effect) ==
    [op |-> op,
     actor |-> IF effect THEN actor ELSE NULL,
     target |-> IF effect THEN target ELSE NULL,
     role |-> IF effect THEN role ELSE NULL,
     ok |-> ok, fault |-> fault,
     admin |-> has_role(actor, "admin"),
     self |-> (actor = target),
     known |-> (target \in Authenticated),
     dirty |-> FALSE, logStart |-> 0, removed |-> 0, rows |-> {}]

Idle == [pc |-> "idle", userId |-> NULL, newRole |-> NULL,
         dirty |-> FALSE, logStart |-> 0, removed |-> 0]

\* a request that is not the next step of an updateUserRole in flight
\* interferes with every updateUserRole in flight
Interfere == [q \in Principals |->
                IF session[q].pc = "deleted" THEN [session[q] EXCEPT !.dirty = TRUE]
                ELSE session[q]]

\* no edge function or hook has answered yet
NoResponse == [fn |-> "none"]
\* no transaction in flight
NoTx == [op |-> "none"]

Init ==
    /\ auth_users = <<>>
    /\ user_roles = {}
    /\ audit_logs = <<>>
    /\ webhook_settings = {}
    /\ next_webhook_id = 0
    /\ visitors = {}
    /\ session = [p \in Principals |-> Idle]
    /\ mutations = <<>>
    /\ last = Req("init", NULL, NULL, NULL, TRUE, FALSE, TRUE)
    /\ pre_registrations = {}
    /\ visitorsState = [p \in Principals |-> {}]
    /\ clock = 0
    /\ response = NoResponse
    /\ invocations = <<>>
    /\ tx = [p \in Principals |-> NoTx]

\* ------------------------------------------------------------ onboarding
NewUserRole_OffByOne(user_count) == IF user_count <= 1 THEN "admin" ELSE "receptionist"
\* handle_new_user: the role given to the new principal
NewUserRole(user_count) == IF user_count = 0 THEN "admin" ELSE "receptionist"

\* on_auth_user_created: profile row, role row, and the audit trigger of the
\* role insert, all in the transaction of the sign-up (auth.uid() is null)
SignUp(p, auditOk) ==
    /\ Len(auth_users) < Len(PrincipalIds)
    /\ p = PrincipalIds[Len(auth_users) + 1]
    /\ Len(audit_logs) < MaxAudit
    /\ LET user_count == Cardinality(user_roles)
           row == [user_id |-> p, role |-> NewUserRole(user_count)]
       IN IF auditOk /\ RolesUniqueOk(row)
          THEN /\ auth_users' = Append(auth_users, p)
               /\ user_roles' = user_roles \cup {row}
               /\ audit_logs' = log_role_changes(audit_logs, "INSERT", NULL, row, row)
               /\ mutations' = Append(mutations, Mut("role_assigned", NULL, p))
               /\ session' = Interfere
               /\ last' = Req("signUp", NULL, p, row.role, TRUE, FALSE, TRUE)
          ELSE /\ last' = Req("signUp", NULL, p, row.role, FALSE, ~auditOk, FALSE)
               /\ UNCHANGED <<auth_users, user_roles, audit_logs, mutations, session>>
    /\ UNCHANGED <<webhook_settings, next_webhook_id, visitors>>
    /\ UNCHANGED ext

\* Sign-ups served at the same time: each transaction runs handle_new_user
\* on its own; SELECT COUNT(*) sees the rows committed when it runs, and the
\* role row is inserted when the transaction commits.
SignUp_count(p) ==
    /\ p \in Principals \ Authenticated
    /\ tx[p] = NoTx
    /\ tx' = [tx EXCEPT ![p] = [op |-> "signUp", user_count |-> Cardinality(user_roles)]]
    /\ UNCHANGED <<auth_users, user_roles, audit_logs, webhook_settings, next_webhook_id,
                   visitors, session, mutations, last, pre_registrations, visitorsState,
                   clock, response, invocations>>

SignUp_insert(p, auditOk) ==
    /\ tx[p].op = "signUp"
    /\ Len(audit_logs) < MaxAudit
    /\ LET row == [user_id |-> p, role |-> NewUserRole(tx[p].user_count)]
       IN IF auditOk /\ RolesUniqueOk(row)
          THEN /\ auth_users' = Append(auth_users, p)
               /\ user_roles' = user_roles \cup {row}
               /\ audit_logs' = log_role_changes(audit_logs, "INSERT", NULL, row, row)
               /\ mutations' = Append(mutations, Mut("role_assigned", NULL, p))
               /\ session' = Interfere
               /\ last' = Req("signUp", NULL, p, row.role, TRUE, FALSE, TRUE)
          ELSE /\ last' = Req("signUp", NULL, p, row.role, FALSE, ~auditOk, FALSE)
               /\ UNCHANGED <<auth_users, user_roles, audit_logs, mutations, session>>
    /\ tx' = [tx EXCEPT ![p] = NoTx]
    /\ UNCHANGED <<webhook_settings, next_webhook_id, visitors, pre_registrations,
                   visitorsState, clock, response, invocations>>

\* --------------------------------------------- requests on user_roles
\* INSERT INTO user_roles (user_id, role) by principal uid
InsertRole(uid, t, r, auditOk) ==
    /\ uid \in Authenticated
    /\ Len(audit_logs) < MaxAudit
    /\ LET row == [user_id |-> t, role |-> r]
           pass == /\ RolesInsertPolicy(uid, row)
                   /\ t \in Authenticated
                   /\ RolesUniqueOk(row)
       IN IF pass /\ auditOk
          THEN /\ user_roles' = user_roles \cup {row}
               /\ audit_logs' = log_role_changes(audit_logs, "INSERT", uid, row, row)
               /\ mutations' = Append(mutations, Mut("role_assigned", uid, t))
               /\ session' = Interfere
               /\ last' = Req("insertRole", uid, t, r, TRUE, FALSE, TRUE)
          ELSE /\ last' = Req("insertRole", uid, t, r, FALSE, pass /\ ~auditOk, FALSE)
               /\ UNCHANGED <<user_roles, audit_logs, mutations, session>>
    /\ UNCHANGED <<auth_users, webhook_settings, next_webhook_id, visitors>>
    /\ UNCHANGED ext

DeletableRoles_KeepAdminRows(uid, t) ==
    {row \in RolesOf(t) : RolesDeletePolicy(uid, row) /\ row.role # "admin"}
\* rows of user t the delete policy lets uid delete
DeletableRoles(uid, t) == {row \in RolesOf(t) : RolesDeletePolicy(uid, row)}

\* DELETE FROM user_roles WHERE user_id = t by principal uid
DeleteRoles(uid, t, auditOk) ==
    /\ uid \in Authenticated
    /\ Len(audit_logs) + Cardinality(DeletableRoles(uid, t)) <= MaxAudit
    /\ \E rows \in SeqOfSet(DeletableRoles(uid, t)) :
         IF auditOk \/ rows = <<>>
         THEN /\ user_roles' = user_roles \ Range(rows)
              /\ audit_logs' = LogRoleDeletes(audit_logs, uid, rows)
              /\ mutations' = MutDeletes(mutations, uid, rows)
              /\ session' = IF rows = <<>> THEN session ELSE Interfere
              /\ last' = [Req("deleteRoles", uid, t, NULL, TRUE, FALSE, rows # <<>>)
                             EXCEPT !.removed = Len(rows)]
         ELSE /\ last' = Req("deleteRoles", uid, t, NULL, FALSE, TRUE, FALSE)
              /\ UNCHANGED <<user_roles, audit_logs, mutations, session>>
    /\ UNCHANGED <<auth_users, webhook_settings, next_webhook_id, visitors>>
    /\ UNCHANGED ext

\* has_role and the delete policy evaluated on the rows a statement sees
has_role_at(roles, _user_id, _role) ==
    \E row \in roles : row.user_id = _user_id /\ row.role = _role
RolesDeletePolicy_at(roles, uid, row) == has_role_at(roles, uid, "admin") /\ row.user_id # uid

\* DELETE FROM user_roles WHERE user_id = t served at the same time as other
\* statements (READ COMMITTED): the statement takes its snapshot ...
DeleteRoles_begin(uid, t) ==
    /\ uid \in Authenticated
    /\ tx[uid] = NoTx
    /\ tx' = [tx EXCEPT ![uid] = [op |-> "deleteRoles", target |-> t,
                                  snapshot |-> user_roles]]
    /\ UNCHANGED <<auth_users, user_roles, audit_logs, webhook_settings, next_webhook_id,
                   visitors, session, mutations, last, pre_registrations, visitorsState,
                   clock, response, invocations>>

\* ... and deletes the rows of its snapshot that pass the policy, evaluated
\* on the snapshot, and that no committed statement has deleted meanwhile
DeleteRoles_commit(uid, auditOk) ==
    /\ tx[uid].op = "deleteRoles"
    /\ LET seen == tx[uid].snapshot
           hit == {row \in seen \cap user_roles :
                     row.user_id = tx[uid].target /\ RolesDeletePolicy_at(seen, uid, row)}
       IN /\ Len(audit_logs) + Cardinality(hit) <= MaxAudit
          /\ \E rows \in SeqOfSet(hit) :
                IF auditOk \/ rows = <<>>
                THEN /\ user_roles' = user_roles \ Range(rows)
                     /\ audit_logs' = LogRoleDeletes(audit_logs, uid, rows)
                     /\ mutations' = MutDeletes(mutations, uid, rows)
                     /\ session' = IF rows = <<>> THEN session ELSE Interfere
                     /\ last' = [Req("deleteRoles", uid, tx[uid].target, NULL, TRUE, FALSE,
                                     rows # <<>>)
                                    EXCEPT !.removed = Len(rows)]
                ELSE /\ last' = Req("deleteRoles", uid, tx[uid].target, NULL, FALSE, TRUE, FALSE)
                     /\ UNCHANGED <<user_roles, audit_logs, mutations, session>>
    /\ tx' = [tx EXCEPT ![uid] = NoTx]
    /\ UNCHANGED <<auth_users, webhook_settings, next_webhook_id, visitors,
                   pre_registrations, visitorsState, clock, response, invocations>>

\* UPDATE user_roles SET role = r WHERE user_id = t by principal uid
UpdateRole(uid, t, r) ==
    /\ uid \in Authenticated
    /\ LET hit == {row \in RolesOf(t) : RolesUpdatePolicy(uid, row)}
           new == {[user_id |-> t, role |-> r]}
       IN IF hit = {}
          THEN /\ last' = Req("updateRole", uid, t, r, TRUE, FALSE, FALSE)
               /\ UNCHANGED <<user_roles, audit_logs, mutations, session>>
          ELSE /\ Len(audit_logs) < MaxAudit
               /\ Cardinality(hit) = 1
               /\ user_roles' = (user_roles \ hit) \cup new
               /\ audit_logs' = log_role_changes(audit_logs, "UPDATE", uid,
                                    CHOOSE row \in hit : TRUE, CHOOSE row \in new : TRUE)
               /\ mutations' = Append(mutations, Mut("role_updated", uid, t))
               /\ session' = Interfere
               /\ last' = [Req("updateRole", uid, t, r, TRUE, FALSE, TRUE) EXCEPT !.removed = 1]
    /\ UNCHANGED <<auth_users, webhook_settings, next_webhook_id, visitors>>
    /\ UNCHANGED ext

\* ------------------------------------------- useUserManagement (client)
\* updateUserRole up to and including its first await: the guards and the
\* delete request
updateUserRole_delete(p, userId, newRole, auditOk) ==
    /\ p \in Authenticated
    /\ session[p].pc = "idle"
    /\ IF userId = EMPTY \/ ~isAdmin(p) \/ userId = p
       THEN /\ last' = Req("updateUserRole", p, userId, newRole, FALSE, FALSE, FALSE)
            /\ UNCHANGED <<user_roles, audit_logs, mutations, session>>
       ELSE /\ Len(audit_logs) + Cardinality(DeletableRoles(p, userId)) < MaxAudit
            /\ \E rows \in SeqOfSet(DeletableRoles(p, userId)) :
                 IF auditOk \/ rows = <<>>
                 THEN /\ user_roles' = user_roles \ Range(rows)
                      /\ audit_logs' = LogRoleDeletes(audit_logs, p, rows)
                      /\ mutations' = MutDeletes(mutations, p, rows)
                      /\ session' = [(IF rows = <<>> THEN session ELSE Interfere) EXCEPT ![p] =
                                        [pc |-> "deleted", userId |-> userId,
                                         newRole |-> newRole, dirty |-> FALSE, logStart |-> Len(audit_logs),
                                         removed |-> Len(rows)]]
                      /\ last' = [Req("updateUserRole.delete", p, userId, newRole, TRUE, FALSE, TRUE)
                                     EXCEPT !.removed = Len(rows)]
                 ELSE /\ last' = Req("updateUserRole", p, userId, newRole, FALSE, TRUE, FALSE)
                      /\ UNCHANGED <<user_roles, audit_logs, mutations, session>>
    /\ UNCHANGED <<auth_users, webhook_settings, next_webhook_id, visitors>>
    /\ UNCHANGED ext

\* updateUserRole after the delete returned: the insert request and the result
updateUserRole_insert(p, auditOk) ==
    /\ session[p].pc = "deleted"
    /\ Len(audit_logs) < MaxAudit
    /\ LET s == session[p]
           row == [user_id |-> s.userId, role |-> s.newRole]
           pass == /\ RolesInsertPolicy(p, row)
                   /\ s.userId \in Authenticated
                   /\ RolesUniqueOk(row)
           done(ok, fault) == [Req("updateUserRole", p, s.userId, s.newRole, ok, fault, ok)
                                  EXCEPT !.dirty = s.dirty, !.logStart = s.logStart,
                                         !.removed = s.removed]
       IN IF pass /\ auditOk
          THEN /\ user_roles' = user_roles \cup {row}
               /\ audit_logs' = log_role_changes(audit_logs, "INSERT", p, row, row)
               /\ mutations' = Append(mutations, Mut("role_assigned", p, s.userId))
               /\ session' = [Interfere EXCEPT ![p] = Idle]
               /\ last' = done(TRUE, FALSE)
          ELSE /\ session' = [session EXCEPT ![p] = Idle]
               /\ last' = done(FALSE, pass /\ ~auditOk)
               /\ UNCHANGED <<user_roles, audit_logs, mutations>>
    /\ UNCHANGED <<auth_users, webhook_settings, next_webhook_id, visitors>>
    /\ UNCHANGED ext

removeUser(p, userId, auditOk) ==
    /\ p \in Authenticated
    /\ IF userId = EMPTY \/ ~isAdmin(p) \/ userId = p
       THEN /\ last' = Req("removeUser", p, userId, NULL, FALSE, FALSE, FALSE)
            /\ UNCHANGED <<user_roles, audit_logs, mutations, session>>
       ELSE /\ Len(audit_logs) + Cardinality(DeletableRoles(p, userId)) <= MaxAudit
            /\ \E rows \in SeqOfSet(DeletableRoles(p, userId)) :
                 IF auditOk \/ rows = <<>>
                 THEN /\ user_roles' = user_roles \ Range(rows)
                      /\ audit_logs' = LogRoleDeletes(audit_logs, p, rows)
                      /\ mutations' = MutDeletes(mutations, p, rows)
                      /\ session' = IF rows = <<>> THEN session ELSE Interfere
                      /\ last' = [Req("removeUser", p, userId, NULL, TRUE, FALSE, rows # <<>>)
                                     EXCEPT !.removed = Len(rows)]
                 ELSE /\ last' = Req("removeUser", p, userId, NULL, FALSE, TRUE, FALSE)
                      /\ UNCHANGED <<user_roles, audit_logs, mutations, session>>
    /\ UNCHANGED <<auth_users, webhook_settings, next_webhook_id, visitors>>
    /\ UNCHANGED ext

\* ------------------------------------------------ requests on audit_logs
ForgedEntry(p_user_id, p_resource_id) ==
    [user_id |-> p_user_id, action |-> "role_assigned", resource_type |-> "user_roles",
     resource_id |-> p_resource_id, old_values |-> JNull,
     new_values |-> jsonb_build_object([role |-> "admin", user_id |-> p_resource_id]),
     metadata |-> JNull]

\* INSERT INTO audit_logs by principal uid
InsertAuditLog(uid, p_user_id) ==
    /\ uid \in Authenticated
    /\ LET row == ForgedEntry(p_user_id, uid)
       IN IF AuditInsertPolicy(uid, row)
          THEN /\ Len(audit_logs) < MaxAudit
               /\ audit_logs' = Append(audit_logs, row)
               /\ last' = Req("insertAuditLog", uid, uid, NULL, TRUE, FALSE, TRUE)
          ELSE /\ last' = Req("insertAuditLog", uid, uid, NULL, FALSE, FALSE, FALSE)
               /\ UNCHANGED audit_logs
    /\ UNCHANGED <<auth_users, user_roles, webhook_settings, next_webhook_id, visitors,
                   session, mutations>>
    /\ UNCHANGED ext

\* UPDATE audit_logs SET user_id = p_user_id WHERE <i-th row> by principal uid
UpdateAuditLog(uid, i, p_user_id) ==
    /\ uid \in Authenticated
    /\ i \in 1..Len(audit_logs)
    /\ audit_logs' = IF AuditUpdatePolicy(uid, audit_logs[i])
                     THEN [audit_logs EXCEPT ![i].user_id = p_user_id]
                     ELSE audit_logs
    /\ last' = Req("updateAuditLog", uid, NULL, NULL, TRUE, FALSE, FALSE)
    /\ UNCHANGED <<auth_users, user_roles, webhook_settings, next_webhook_id, visitors,
                   session, mutations>>
    /\ UNCHANGED ext

\* DELETE FROM audit_logs WHERE <i-th row> by principal uid
DeleteAuditLog(uid, i) ==
    /\ uid \in Authenticated
    /\ i \in 1..Len(audit_logs)
    /\ audit_logs' = IF AuditDeletePolicy(uid, audit_logs[i])
                     THEN SubSeq(audit_logs, 1, i - 1) \o Tail_(audit_logs, i)
                     ELSE audit_logs
    /\ last' = Req("deleteAuditLog", uid, NULL, NULL, TRUE, FALSE, FALSE)
    /\ UNCHANGED <<auth_users, user_roles, webhook_settings, next_webhook_id, visitors,
                   session, mutations>>
    /\ UNCHANGED ext

\* EXECUTE on a function of schema public is granted to every role unless
\* revoked, and no migration revokes it: rpc('create_audit_log', ...) by uid
RpcCreateAuditLogAllowed(uid) == TRUE

RpcCreateAuditLog(uid, p_user_id) ==
    /\ uid \in Authenticated
    /\ IF RpcCreateAuditLogAllowed(uid)
       THEN /\ Len(audit_logs) < MaxAudit
            /\ audit_logs' = create_audit_log(audit_logs, p_user_id, "role_assigned",
                                 "user_roles", uid, JNull,
                                 jsonb_build_object([role |-> "admin", user_id |-> uid]), JNull)
            /\ last' = Req("rpcCreateAuditLog", uid, uid, NULL, TRUE, FALSE, TRUE)
       ELSE /\ last' = Req("rpcCreateAuditLog", uid, uid, NULL, FALSE, FALSE, FALSE)
            /\ UNCHANGED audit_logs
    /\ UNCHANGED <<auth_users, user_roles, webhook_settings, next_webhook_id, visitors,
                   session, mutations>>
    /\ UNCHANGED ext

\* ---------------------------------------------- useWebhookSettings (client)
addWebhook(p, formData, auditOk) ==
    /\ p \in Authenticated
    /\ IF ~isAdmin(p)
       THEN /\ last' = Req("addWebhook", p, NULL, NULL, FALSE, FALSE, FALSE)
            /\ UNCHANGED <<webhook_settings, next_webhook_id, audit_logs, mutations>>
       ELSE /\ next_webhook_id < MaxWebhooks
            /\ Len(audit_logs) < MaxAudit
            /\ LET row == [id |-> WebhookIds[next_webhook_id + 1],
                           name |-> formData.name,
                           webhook_type |-> formData.webhookType,
                           is_active |-> formData.isActive,
                           notify_on_checkin |-> formData.notifyOnCheckin,
                           notify_on_checkout |-> formData.notifyOnCheckout]
               IN IF WebhookPolicy(p, row) /\ auditOk
                  THEN /\ webhook_settings' = webhook_settings \cup {row}
                       /\ next_webhook_id' = next_webhook_id + 1
                       /\ audit_logs' = log_webhook_changes(audit_logs, "INSERT", p, row, row)
                       /\ mutations' = Append(mutations, Mut("webhook_created", p, row.id))
                       /\ last' = Req("addWebhook", p, row.id, NULL, TRUE, FALSE, TRUE)
                  ELSE /\ last' = Req("addWebhook", p, row.id, NULL, FALSE,
                                      WebhookPolicy(p, row) /\ ~auditOk, FALSE)
                       /\ UNCHANGED <<webhook_settings, next_webhook_id, audit_logs, mutations>>
    /\ UNCHANGED <<auth_users, user_roles, visitors, session>>
    /\ UNCHANGED ext

\* updateData built from the fields the form sets
ApplyPatch(w, formData) ==
    IF formData.field = "name" THEN [w EXCEPT !.name = formData.value]
    ELSE IF formData.field = "isActive" THEN [w EXCEPT !.is_active = formData.value]
    ELSE IF formData.field = "notifyOnCheckin"
         THEN [w EXCEPT !.notify_on_checkin = formData.value]
    ELSE [w EXCEPT !.notify_on_checkout = formData.value]

updateWebhook(p, id, formData, auditOk) ==
    /\ p \in Authenticated
    /\ LET hit == {w \in webhook_settings : w.id = id /\ WebhookPolicy(p, w)}
       IN IF hit = {}
          THEN /\ last' = Req("updateWebhook", p, id, NULL, TRUE, FALSE, FALSE)
               /\ UNCHANGED <<webhook_settings, audit_logs, mutations>>
          ELSE /\ Len(audit_logs) < MaxAudit
               /\ IF auditOk
                  THEN LET old == CHOOSE w \in hit : TRUE
                           new == ApplyPatch(old, formData)
                       IN /\ webhook_settings' = (webhook_settings \ hit) \cup {new}
                          /\ audit_logs' = log_webhook_changes(audit_logs, "UPDATE", p, old, new)
                          /\ mutations' = Append(mutations, Mut("webhook_updated", p, id))
                          /\ last' = [Req("updateWebhook", p, id, NULL, TRUE, FALSE, TRUE)
                                         EXCEPT !.removed = 1]
                  ELSE /\ last' = Req("updateWebhook", p, id, NULL, FALSE, TRUE, FALSE)
                       /\ UNCHANGED <<webhook_settings, audit_logs, mutations>>
    /\ UNCHANGED <<auth_users, user_roles, next_webhook_id, visitors, session>>
    /\ UNCHANGED ext

deleteWebhook(p, id, auditOk) ==
    /\ p \in Authenticated
    /\ LET hit == {w \in webhook_settings : w.id = id /\ WebhookPolicy(p, w)}
       IN IF hit = {}
          THEN /\ last' = Req("deleteWebhook", p, id, NULL, TRUE, FALSE, FALSE)
               /\ UNCHANGED <<webhook_settings, audit_logs, mutations>>
          ELSE /\ Len(audit_logs) < MaxAudit
               /\ IF auditOk
                  THEN /\ webhook_settings' = webhook_settings \ hit
                       /\ audit_logs' = log_webhook_changes(audit_logs, "DELETE", p,
                                            CHOOSE w \in hit : TRUE, CHOOSE w \in hit : TRUE)
                       /\ mutations' = Append(mutations, Mut("webhook_deleted", p, id))
                       /\ last' = [Req("deleteWebhook", p, id, NULL, TRUE, FALSE, TRUE)
                                      EXCEPT !.removed = 1]
                  ELSE /\ last' = Req("deleteWebhook", p, id, NULL, FALSE, TRUE, FALSE)
                       /\ UNCHANGED <<webhook_settings, audit_logs, mutations>>
    /\ UNCHANGED <<auth_users, user_roles, next_webhook_id, visitors, session>>
    /\ UNCHANGED ext

UsedWebhookIds == {WebhookIds[i] : i \in 1..next_webhook_id}

\* ----------------------------------------------- requests on visitors
\* INSERT INTO visitors (..., created_by) by principal uid (addVisitor sends
\* created_by = user.id); status and check_out_time take their defaults
InsertVisitor(uid, created_by) ==
    /\ uid \in Authenticated
    /\ created_by \in Authenticated \cup {NULL}
    /\ LET row == [id |-> Cardinality(visitors) + 1, created_by |-> created_by,
                   status |-> "checked-in", check_out_time |-> NULL]
       IN IF VisitorsInsertPolicy(uid, row)
          THEN /\ Cardinality(visitors) < MaxVisitors
               /\ visitors' = visitors \cup {row}
               /\ last' = Req("insertVisitor", uid, NULL, NULL, TRUE, FALSE, TRUE)
          ELSE /\ last' = Req("insertVisitor", uid, NULL, NULL, FALSE, FALSE, FALSE)
               /\ UNCHANGED visitors
    /\ UNCHANGED <<auth_users, user_roles, audit_logs, webhook_settings, next_webhook_id,
                   session, mutations>>
    /\ UNCHANGED ext

\* fetchVisitors: SELECT * FROM visitors by principal uid
SelectVisitors(uid) ==
    /\ uid \in Authenticated
    /\ last' = [Req("selectVisitors", uid, NULL, NULL, TRUE, FALSE, TRUE)
                   EXCEPT !.rows = {v.id : v \in {w \in visitors : VisitorsSelectPolicy(uid, w)}}]
    /\ UNCHANGED <<auth_users, user_roles, audit_logs, webhook_settings, next_webhook_id,
                   visitors, session, mutations>>
    /\ UNCHANGED ext

\* ------------------------------------------- text carried by a request
\* a string is the sequence of its UTF-16 code units
ControlChars == 0..31 \cup {127}
Amp == 38
Lt == 60
Gt == 62
Quot == 34
Apos == 39
MarkupChars == {Amp, Lt, Gt, Quot, Apos}
EscapeTextLimit == 500

Repeat(c, n) == [i \in 1..n |-> c]

\* visitor text submitted in a request body: empty, markup-significant
\* characters, control characters, and two texts around the length limit
PayloadTexts ==
    {<<>>,
     <<Lt, 115, Gt, Amp, Quot, Apos>>,
     <<0, 97, 31, 127, 98>>,
     Repeat(97, EscapeTextLimit + 1),
     <<0>> \o Repeat(97, EscapeTextLimit) \o <<127, 98>>}

\* the text fields of the Visitor payload
TextFields == {"full_name", "badge_id", "company_name", "host_name", "purpose",
               "phone_number", "email", "host_email"}
\* the fields formatMessage puts into a Slack or Teams message
MessageFields == {"full_name", "badge_id", "company_name", "host_name", "purpose"}

Min(a, b) == IF a < b THEN a ELSE b
NotControl(c) == c \notin ControlChars

\* escapeText: '' for a falsy value, else control characters removed, then
\* substring(0, 500)
escapeText(unsafe) ==
    IF unsafe = <<>> THEN <<>>
    ELSE LET stripped == SelectSeq(unsafe, NotControl)
         IN SubSeq(stripped, 1, Min(Len(stripped), EscapeTextLimit))

\* Authorization header of a request: absent, a bearer token that getClaims
\* rejects, or the session token of a signed-in principal
NoToken == "no-token"
BadToken == "bad-token"
Tokens == {NoToken, BadToken} \cup Principals
ValidToken(token) == token \in Authenticated

\* SELECT policies of user_roles, or-ed
RolesSelectPolicy(uid, row) == row.user_id = uid \/ has_role(uid, "admin")

\* select('role').eq('user_id', userId).maybeSingle() as userId: the row if
\* exactly one is visible, no data if none, an error if several
StaffRoleFound(userId) ==
    LET rows == {row \in user_roles : row.user_id = userId /\ RolesSelectPolicy(userId, row)}
    IN /\ Cardinality(rows) = 1
       /\ \A row \in rows : row.role \in {"admin", "receptionist"}

\* visitor.id of a payload: 0 stands for an absent (falsy) id
NoId == 0
PayloadIds == 0..(MaxVisitors + 1)
EventTypes == {"checkin", "checkout"}

\* select('id').eq('id', id).maybeSingle() on visitors as userId
VisitorFound(userId, id) ==
    \E v \in visitors : v.id = id /\ VisitorsSelectPolicy(userId, v)

\* webhooks fetched with is_active = true, then filtered by the event flag
activeWebhooks_IgnoreActive(eventType) ==
    {w \in webhook_settings :
        IF eventType = "checkin" THEN w.notify_on_checkin
        ELSE IF eventType = "checkout" THEN w.notify_on_checkout
        ELSE FALSE}
activeWebhooks(eventType) ==
    {w \in {x \in webhook_settings : x.is_active} :
        IF eventType = "checkin" THEN w.notify_on_checkin
        ELSE IF eventType = "checkout" THEN w.notify_on_checkout
        ELSE FALSE}

\* Promise.allSettled over activeWebhooks.map, then results.map: one entry
\* per target, in the order of the targets
summary_DropFailed(targets, failed) ==
    LET ok(w) == w.id \notin failed
    IN [i \in 1..Len(SelectSeq(targets, ok)) |->
           [webhook |-> SelectSeq(targets, ok)[i].name, success |-> TRUE]]
summary(targets, failed) ==
    [i \in 1..Len(targets) |->
        [webhook |-> targets[i].name, success |-> targets[i].id \notin failed]]

\* formatMessage: the visitor fields a message carries
formatMessage(visitor, eventType, webhookType) ==
    [type |-> webhookType, eventType |-> eventType,
     fields |-> [f \in MessageFields |-> visitor[f]]]

\* the dispatch shared by both handlers: the targets are read with the
\* service role and every target gets one fetch
Dispatch_StopAtFailure(fn, token, visitor_id, eventType, text, safeVisitor, targets, failed) ==
    LET bad == {i \in 1..Len(targets) : targets[i].id \in failed}
        n == IF bad = {} THEN Len(targets) ELSE CHOOSE i \in bad : \A j \in bad : i <= j
        tried == SubSeq(targets, 1, n)
    IN [fn |-> fn, token |-> token, visitor_id |-> visitor_id, eventType |-> eventType,
        text |-> text, status |-> 200, success |-> TRUE, webhooksRead |-> TRUE,
        results |-> summary(tried, failed),
        attempts |-> [i \in 1..n |-> tried[i].id],
        failed |-> failed,
        messages |-> [i \in 1..n |->
                         formatMessage(safeVisitor, eventType, tried[i].webhook_type)]]
Dispatch(fn, token, visitor_id, eventType, text, safeVisitor, targets, failed) ==
    [fn |-> fn, token |-> token, visitor_id |-> visitor_id, eventType |-> eventType,
     text |-> text, status |-> 200, success |-> TRUE, webhooksRead |-> TRUE,
     results |-> summary(targets, failed),
     attempts |-> [i \in 1..Len(targets) |-> targets[i].id],
     failed |-> failed,
     messages |-> [i \in 1..Len(targets) |->
                      formatMessage(safeVisitor, eventType, targets[i].webhook_type)]]

Refused(fn, token, visitor_id, eventType, text, status) ==
    [fn |-> fn, token |-> token, visitor_id |-> visitor_id, eventType |-> eventType,
     text |-> text, status |-> status, success |-> FALSE, webhooksRead |-> FALSE,
     results |-> <<>>, attempts |-> <<>>, failed |-> {}, messages |-> <<>>]

\* the rows come back in an order the query does not fix; each fetch either
\* succeeds or fails (a non-2xx answer or a rejected promise)
DispatchInputs(eventType, targets, failed) ==
    /\ targets \in SeqOfSet(activeWebhooks(eventType))
    /\ failed \subseteq {w.id : w \in activeWebhooks(eventType)}

\* send-visitor-notification, the handler that authenticates the caller
sendVisitorNotification(token, visitor_id, eventType, text, targets, failed) ==
    /\ DispatchInputs(eventType, targets, failed)
    /\ LET fn == "send-visitor-notification"
           visitor == [f \in TextFields |-> text]
           safeVisitor == [f \in TextFields |->
                              IF f \in {"email", "host_email"}
                              THEN IF visitor[f] # <<>> THEN escapeText(visitor[f]) ELSE <<>>
                              ELSE escapeText(visitor[f])]
       IN response' =
             IF token = NoToken \/ ~ValidToken(token)
             THEN Refused(fn, token, visitor_id, eventType, text, 401)
             ELSE IF ~StaffRoleFound(token)
             THEN Refused(fn, token, visitor_id, eventType, text, 403)
             ELSE IF visitor_id # NoId /\ ~VisitorFound(token, visitor_id)
             THEN Refused(fn, token, visitor_id, eventType, text, 404)
             ELSE Dispatch(fn, token, visitor_id, eventType, text, safeVisitor,
                           targets, failed)
    /\ UNCHANGED <<tx, auth_users, user_roles, audit_logs, webhook_settings, next_webhook_id,
                   visitors, session, mutations, last, pre_registrations, visitorsState,
                   clock, invocations>>

\* send-visitor-notification, the handler that reads the body straight away
sendVisitorNotification_unchecked(token, visitor_id, eventType, text, targets, failed) ==
    /\ DispatchInputs(eventType, targets, failed)
    /\ LET visitor == [f \in TextFields |-> text]
       IN response' = Dispatch("send-visitor-notification", token, visitor_id,
                               eventType, text, visitor, targets, failed)
    /\ UNCHANGED <<tx, auth_users, user_roles, audit_logs, webhook_settings, next_webhook_id,
                   visitors, session, mutations, last, pre_registrations, visitorsState,
                   clock, invocations>>

\* ------------------------------------------------------- send-visitor-email
\* String.replace(/c/g, entity): every occurrence of c replaced, left to right
RECURSIVE ReplaceAll(_, _, _)
ReplaceAll(s, c, entity) ==
    IF s = <<>> THEN <<>>
    ELSE (IF Head(s) = c THEN entity ELSE <<Head(s)>>) \o ReplaceAll(Tail(s), c, entity)

\* "&amp;" "&lt;" "&gt;" "&quot;" "&#039;"
AmpEntity == <<Amp, 97, 109, 112, 59>>
LtEntity == <<Amp, 108, 116, 59>>
GtEntity == <<Amp, 103, 116, 59>>
QuotEntity == <<Amp, 113, 117, 111, 116, 59>>
AposEntity == <<Amp, 35, 48, 51, 57, 59>>
Entities == {AmpEntity, LtEntity, GtEntity, QuotEntity, AposEntity}

\* escapeHtml: '' for a falsy value, else the five replacements in this order
escapeHtml(unsafe) ==
    IF unsafe = <<>> THEN <<>>
    ELSE ReplaceAll(ReplaceAll(ReplaceAll(ReplaceAll(ReplaceAll(unsafe,
             Amp, AmpEntity), Lt, LtEntity), Gt, GtEntity), Quot, QuotEntity),
             Apos, AposEntity)

\* visitor fields interpolated into visitorHtml and into hostHtml
VisitorHtmlFields == {"full_name", "badge_id", "host_name", "purpose"}
HostHtmlFields == {"host_name", "full_name", "company_name", "purpose"}

\* the mails a check-in request leads to: the confirmation if the visitor
\* gave an email, the host notification if a host email is known
Mails(eventType, hasEmail, hasHostEmail) ==
    (IF hasEmail /\ eventType = "checkin" THEN <<"visitor_confirmation">> ELSE <<>>)
    \o (IF hasHostEmail /\ eventType = "checkin" THEN <<"host_notification">> ELSE <<>>)

\* sendEmail: one POST to the mail provider per mail; it reports a failure
\* in its result and never throws
EmailsSent(fn, token, visitor_id, eventType, text, embedded, mails, mailOk) ==
    [fn |-> fn, token |-> token, visitor_id |-> visitor_id, eventType |-> eventType,
     text |-> text, status |-> 200, success |-> TRUE,
     results |-> [i \in 1..Len(mails) |-> [type |-> mails[i], success |-> mailOk]],
     emails |-> [i \in 1..Len(mails) |->
                   [type |-> mails[i],
                    html |-> [f \in (IF mails[i] = "visitor_confirmation"
                                     THEN VisitorHtmlFields ELSE HostHtmlFields) |->
                                 embedded[f]]]]]

EmailRefused(fn, token, visitor_id, eventType, text, status) ==
    [fn |-> fn, token |-> token, visitor_id |-> visitor_id, eventType |-> eventType,
     text |-> text, status |-> status, success |-> FALSE, results |-> <<>>, emails |-> <<>>]

\* supabase/functions/send-visitor-email/index.ts: the body is read and the
\* mails are built from the visitor as received
sendVisitorEmail(token, visitor_id, eventType, text, hasEmail, hasHostEmail, mailOk) ==
    /\ LET visitor == [f \in TextFields |-> text]
       IN response' = EmailsSent("send-visitor-email", token, visitor_id, eventType, text,
                                 visitor, Mails(eventType, hasEmail, hasHostEmail), mailOk)
    /\ UNCHANGED <<tx, auth_users, user_roles, audit_logs, webhook_settings, next_webhook_id,
                   visitors, session, mutations, last, pre_registrations, visitorsState,
                   clock, invocations>>

\* send-visitor-email, the handler that authenticates the caller and builds
\* the mails from safeVisitor
sendVisitorEmail_authenticated(token, visitor_id, eventType, text, hasEmail, hasHostEmail, mailOk) ==
    /\ LET fn == "send-visitor-email"
           visitor == [f \in TextFields |-> text]
           safeVisitor == [f \in TextFields |-> escapeHtml(visitor[f])]
       IN response' =
             IF token = NoToken \/ ~ValidToken(token)
             THEN EmailRefused(fn, token, visitor_id, eventType, text, 401)
             ELSE IF ~StaffRoleFound(token)
             THEN EmailRefused(fn, token, visitor_id, eventType, text, 403)
             ELSE IF visitor_id # NoId /\ ~VisitorFound(token, visitor_id)
             THEN EmailRefused(fn, token, visitor_id, eventType, text, 404)
             ELSE EmailsSent(fn, token, visitor_id, eventType, text, safeVisitor,
                             Mails(eventType, hasEmail, hasHostEmail), mailOk)
    /\ UNCHANGED <<tx, auth_users, user_roles, audit_logs, webhook_settings, next_webhook_id,
                   visitors, session, mutations, last, pre_registrations, visitorsState,
                   clock, invocations>>

\* ---------------------------------------------------------- pre_registrations
PreRegIds == <<"r1", "r2", "r3", "r4">>
\* CHECK (status IN (...))
PreRegStatus == {"pending", "checked-in", "cancelled", "expired"}

PreRegInsertPolicy(uid, row) == SqlEq(row.host_user_id, uid)
PreRegUpdatePolicy_HostOnly(uid, row) == SqlEq(row.host_user_id, uid)
\* the two permissive UPDATE policies, or-ed
PreRegUpdatePolicy(uid, row) == SqlEq(row.host_user_id, uid) \/ is_staff(uid)
PreRegDeletePolicy(uid, row) == SqlEq(row.host_user_id, uid)

HostOf(id) == IF \E r \in pre_registrations : r.id = id
              THEN (CHOOSE r \in pre_registrations : r.id = id).host_user_id
              ELSE NULL

\* id uuid DEFAULT gen_random_uuid(): an id no row holds
FreshPreRegId ==
    PreRegIds[CHOOSE i \in 1..Len(PreRegIds) :
                 /\ \A r \in pre_registrations : r.id # PreRegIds[i]
                 /\ \A j \in 1..(i - 1) : \E r \in pre_registrations : r.id = PreRegIds[j]]

\* outcome of a request on pre_registrations: the rows it touched
PreRegOutcome(fn, p, id, status, ok, touched) ==
    [fn |-> fn, actor |-> p, id |-> id, host |-> HostOf(id), status |-> status,
     ok |-> ok, touched |-> {r.id : r \in touched}]

\* addPreRegistration: insert with host_user_id = user.id, status 'pending'
addPreRegistration(p) ==
    /\ p \in Authenticated
    /\ Cardinality(pre_registrations) < MaxPreRegs
    /\ LET row == [id |-> FreshPreRegId,
                   host_user_id |-> p, status |-> "pending"]
       IN IF PreRegInsertPolicy(p, row)
          THEN /\ pre_registrations' = pre_registrations \cup {row}
               /\ response' = [PreRegOutcome("addPreRegistration", p, row.id, "pending",
                                             TRUE, {row}) EXCEPT !.host = p]
          ELSE /\ response' = PreRegOutcome("addPreRegistration", p, row.id, "pending",
                                            FALSE, {})
               /\ UNCHANGED pre_registrations
    /\ UNCHANGED <<tx, auth_users, user_roles, audit_logs, webhook_settings, next_webhook_id,
                   visitors, session, mutations, last, visitorsState, clock, invocations>>

\* update({ status }).eq('id', id): the rows the policies let p update get the
\* status; no row touched is not an error
SetPreRegStatus(fn, p, id, status) ==
    LET hit == {r \in pre_registrations : r.id = id /\ PreRegUpdatePolicy(p, r)}
    IN /\ pre_registrations' = (pre_registrations \ hit)
                               \cup {[r EXCEPT !.status = status] : r \in hit}
       /\ response' = PreRegOutcome(fn, p, id, status, TRUE, hit)

updatePreRegistrationStatus(p, id, status) ==
    /\ p \in Authenticated
    /\ status \in PreRegStatus
    /\ SetPreRegStatus("updatePreRegistrationStatus", p, id, status)
    /\ UNCHANGED <<tx, auth_users, user_roles, audit_logs, webhook_settings, next_webhook_id,
                   visitors, session, mutations, last, visitorsState, clock, invocations>>

cancelPreRegistration(p, id) ==
    /\ p \in Authenticated
    /\ SetPreRegStatus("cancelPreRegistration", p, id, "cancelled")
    /\ UNCHANGED <<tx, auth_users, user_roles, audit_logs, webhook_settings, next_webhook_id,
                   visitors, session, mutations, last, visitorsState, clock, invocations>>

\* DELETE FROM pre_registrations WHERE id = id by principal uid
DeletePreRegistration(uid, id) ==
    /\ uid \in Authenticated
    /\ LET hit == {r \in pre_registrations : r.id = id /\ PreRegDeletePolicy(uid, r)}
       IN /\ pre_registrations' = pre_registrations \ hit
          /\ response' = PreRegOutcome("deletePreRegistration", uid, id, NULL, TRUE, hit)
    /\ UNCHANGED <<tx, auth_users, user_roles, audit_logs, webhook_settings, next_webhook_id,
                   visitors, session, mutations, last, visitorsState, clock, invocations>>

\* ------------------------------------------------------- visitor check-out
\* CHECK (status IN ('checked-in', 'checked-out'))
VisitorStatus == {"checked-in", "checked-out"}
\* new Date().toISOString() at the n-th instant
toISOString(n) == ToString(n)
Times == {toISOString(n) : n \in 1..MaxClock}

\* "Admins or creator can update visitors"
VisitorsUpdatePolicy(uid, row) ==
    \/ has_role(uid, "admin")
    \/ SqlEq(row.created_by, uid)
\* visitors has no DELETE policy: row-level security refuses every row
VisitorsDeletePolicy(uid, row) == FALSE

\* fetchVisitors: the hook's list becomes the rows the SELECT returns
fetchVisitors(p) ==
    /\ p \in Authenticated
    /\ visitorsState' = [visitorsState EXCEPT
                            ![p] = {v \in visitors : VisitorsSelectPolicy(p, v)}]
    /\ UNCHANGED <<tx, auth_users, user_roles, audit_logs, webhook_settings, next_webhook_id,
                   visitors, session, mutations, last, pre_registrations, clock,
                   response, invocations>>

\* what a call of addVisitor / checkOutVisitor did: the error of its
\* database request, the rows the request changed, the functions it invoked
\* (awaited: it waited for them before returning) and the value it returned
HookOutcome(fn, p, id, error, touched, invoked, invokeOk, awaited, result) ==
    [fn |-> fn, actor |-> p, id |-> id, error |-> error, touched |-> touched,
     invoked |-> invoked, invokeOk |-> invokeOk, awaited |-> awaited /\ invoked # <<>>,
     result |-> result]

Invocation(fn, p, eventType, id) ==
    [fn |-> fn, actor |-> p, eventType |-> eventType, visitor_id |-> id]

\* insert({..., created_by: user.id}).select().single(), setVisitors, then
\* functions.invoke of both notification functions; dbOk: the request is
\* served without a database or network error; invokeOk: the invocations
\* succeed
AddVisitorRequest(fn, p, dbOk, invokeOk, awaited) ==
    LET row == [id |-> Cardinality(visitors) + 1, created_by |-> p,
                status |-> "checked-in", check_out_time |-> NULL]
    IN IF dbOk /\ VisitorsInsertPolicy(p, row) /\ VisitorsSelectPolicy(p, row)
       THEN /\ visitors' = visitors \cup {row}
            /\ visitorsState' = [visitorsState EXCEPT ![p] = @ \cup {row}]
            /\ invocations' = invocations \o
                   <<Invocation("send-visitor-notification", p, "checkin", row.id),
                     Invocation("send-visitor-email", p, "checkin", row.id)>>
            /\ response' = HookOutcome(fn, p, row.id, FALSE, {row.id},
                               <<"send-visitor-notification", "send-visitor-email">>,
                               invokeOk, awaited, TRUE)
       ELSE /\ response' = HookOutcome(fn, p, NoId, TRUE, {}, <<>>, invokeOk, awaited, FALSE)
            /\ UNCHANGED <<visitors, visitorsState, invocations>>

\* addVisitor of useVisitorsDB: the invocations are not awaited
addVisitor(p, dbOk, invokeOk) ==
    /\ p \in Authenticated
    /\ Cardinality(visitors) < MaxVisitors
    /\ AddVisitorRequest("addVisitor", p, dbOk, invokeOk, FALSE)
    /\ UNCHANGED <<tx, auth_users, user_roles, audit_logs, webhook_settings, next_webhook_id,
                   session, mutations, last, pre_registrations, clock>>

\* addVisitor of src/hooks/useVisitorsDB.ts: each invocation is awaited
\* inside its own try / catch
addVisitor_awaited(p, dbOk, invokeOk) ==
    /\ p \in Authenticated
    /\ Cardinality(visitors) < MaxVisitors
    /\ AddVisitorRequest("addVisitor", p, dbOk, invokeOk, TRUE)
    /\ UNCHANGED <<tx, auth_users, user_roles, audit_logs, webhook_settings, next_webhook_id,
                   session, mutations, last, pre_registrations, clock>>

\* update({ status: 'checked-out', check_out_time }).eq('id', id) at instant
\* now, setVisitors, then functions.invoke('send-visitor-notification'); a
\* request that changes no row is not an error
CheckOutRequest(p, id, now, dbOk, invokeOk, awaited) ==
    LET hit == {v \in visitors : v.id = id /\ VisitorsUpdatePolicy(p, v)}
        out(v) == [v EXCEPT !.status = "checked-out", !.check_out_time = toISOString(now)]
    IN /\ clock' = now
       /\ IF dbOk
          THEN /\ visitors' = (visitors \ hit) \cup {out(v) : v \in hit}
               /\ visitorsState' = [visitorsState EXCEPT
                                       ![p] = {IF v.id = id THEN out(v) ELSE v : v \in @}]
               /\ invocations' = Append(invocations,
                                        Invocation("send-visitor-notification", p,
                                                   "checkout", id))
               /\ response' = HookOutcome("checkOutVisitor", p, id, FALSE,
                                  {v.id : v \in hit}, <<"send-visitor-notification">>,
                                  invokeOk, awaited, TRUE)
          ELSE /\ response' = HookOutcome("checkOutVisitor", p, id, TRUE, {}, <<>>,
                                          invokeOk, awaited, FALSE)
               /\ UNCHANGED <<visitors, visitorsState, invocations>>

\* checkOutVisitor of useVisitorsDB with the 'Already Checked Out' test on the
\* hook's list
checkOutVisitor(p, id, dbOk, invokeOk) ==
    /\ p \in Authenticated
    /\ clock < MaxClock
    /\ \E visitor \in visitorsState[p] : visitor.id = id /\ visitor.status # "checked-out"
    /\ CheckOutRequest(p, id, clock + 1, dbOk, invokeOk, FALSE)
    /\ UNCHANGED <<tx, auth_users, user_roles, audit_logs, webhook_settings, next_webhook_id,
                   session, mutations, last, pre_registrations>>

\* checkOutVisitor of src/hooks/useVisitorsDB.ts: only the lookup in the list
checkOutVisitor_unguarded(p, id, dbOk, invokeOk) ==
    /\ p \in Authenticated
    /\ clock < MaxClock
    /\ \E visitor \in visitorsState[p] : visitor.id = id
    /\ CheckOutRequest(p, id, clock + 1, dbOk, invokeOk, TRUE)
    /\ UNCHANGED <<tx, auth_users, user_roles, audit_logs, webhook_settings, next_webhook_id,
                   session, mutations, last, pre_registrations>>

\* UPDATE visitors SET status, check_out_time WHERE id = id by principal uid
UpdateVisitor(uid, id, status, check_out_time) ==
    /\ uid \in Authenticated
    /\ status \in VisitorStatus
    /\ check_out_time \in Times \cup {NULL}
    /\ LET hit == {v \in visitors : v.id = id /\ VisitorsUpdatePolicy(uid, v)}
       IN /\ visitors' = (visitors \ hit)
                         \cup {[v EXCEPT !.status = status,
                                         !.check_out_time = check_out_time] : v \in hit}
          /\ last' = [Req("updateVisitor", uid, NULL, NULL, TRUE, FALSE, hit # {})
                         EXCEPT !.rows = {v.id : v \in hit}]
    /\ UNCHANGED <<auth_users, user_roles, audit_logs, webhook_settings, next_webhook_id,
                   session, mutations>>
    /\ UNCHANGED ext

\* DELETE FROM visitors WHERE id = id by principal uid
DeleteVisitor(uid, id) ==
    /\ uid \in Authenticated
    /\ LET hit == {v \in visitors : v.id = id /\ VisitorsDeletePolicy(uid, v)}
       IN /\ visitors' = visitors \ hit
          /\ last' = [Req("deleteVisitor", uid, NULL, NULL, TRUE, FALSE, hit # {})
                         EXCEPT !.rows = {v.id : v \in hit}]
    /\ UNCHANGED <<auth_users, user_roles, audit_logs, webhook_settings, next_webhook_id,
                   session, mutations>>
    /\ UNCHANGED ext

\* the caller reads the response of its edge-function call
receiveResponse ==
    /\ response # NoResponse
    /\ response' = NoResponse
    /\ UNCHANGED <<tx, auth_users, user_roles, audit_logs, webhook_settings, next_webhook_id,
                   visitors, session, mutations, last, pre_registrations, visitorsState,
                   clock, invocations>>

\* ------------------------------------------------------- specifications
\* role management: onboarding, the requests on user_roles, useUserManagement
NextRoles ==
    \/ \E p \in Principals, auditOk \in BOOLEAN : SignUp(p, auditOk)
    \/ \E uid \in Principals, t \in Principals, r \in app_role, auditOk \in BOOLEAN :
          InsertRole(uid, t, r, auditOk)
    \/ \E uid \in Principals, t \in Principals, auditOk \in BOOLEAN :
          DeleteRoles(uid, t, auditOk)
    \/ \E uid \in Principals, t \in Principals, r \in app_role : UpdateRole(uid, t, r)
    \/ \E p \in Principals, userId \in Principals \cup {EMPTY}, newRole \in app_role,
          auditOk \in BOOLEAN : updateUserRole_delete(p, userId, newRole, auditOk)
    \/ \E p \in Principals, auditOk \in BOOLEAN : updateUserRole_insert(p, auditOk)
    \/ \E p \in Principals, userId \in Principals \cup {EMPTY}, auditOk \in BOOLEAN :
          removeUser(p, userId, auditOk)

Spec == Init /\ [][NextRoles]_vars

\* audit trail: every statement that reaches audit_logs, directly or by trigger
NextAudit ==
    \/ \E p \in Principals, auditOk \in BOOLEAN : SignUp(p, auditOk)
    \/ \E uid \in Principals, t \in Principals, r \in app_role, auditOk \in BOOLEAN :
          InsertRole(uid, t, r, auditOk)
    \/ \E uid \in Principals, t \in Principals, auditOk \in BOOLEAN :
          DeleteRoles(uid, t, auditOk)
    \/ \E uid \in Principals, t \in Principals, r \in app_role : UpdateRole(uid, t, r)
    \/ \E uid \in Principals : \E p_user_id \in {NULL, uid} : InsertAuditLog(uid, p_user_id)
    \/ \E uid \in Principals, i \in 1..Len(audit_logs) : \E p_user_id \in {NULL, uid} :
          UpdateAuditLog(uid, i, p_user_id)
    \/ \E uid \in Principals, i \in 1..Len(audit_logs) : DeleteAuditLog(uid, i)
    \/ \E uid \in Principals : \E p_user_id \in {NULL, uid} : RpcCreateAuditLog(uid, p_user_id)
    \/ \E p \in Principals, formData \in WebhookForms, auditOk \in BOOLEAN :
          addWebhook(p, formData, auditOk)
    \/ \E p \in Principals, id \in UsedWebhookIds, formData \in WebhookPatches,
          auditOk \in BOOLEAN : updateWebhook(p, id, formData, auditOk)
    \/ \E p \in Principals, id \in UsedWebhookIds, auditOk \in BOOLEAN :
          deleteWebhook(p, id, auditOk)

SpecAudit == Init /\ [][NextAudit]_vars

\* visitor records: role changes, visitor inserts and reads
NextVisitors ==
    \/ \E p \in Principals, auditOk \in BOOLEAN : SignUp(p, auditOk)
    \/ \E uid \in Principals, t \in Principals, r \in app_role, auditOk \in BOOLEAN :
          InsertRole(uid, t, r, auditOk)
    \/ \E uid \in Principals, t \in Principals, auditOk \in BOOLEAN :
          DeleteRoles(uid, t, auditOk)
    \/ \E uid \in Principals, created_by \in Principals \cup {NULL} :
          InsertVisitor(uid, created_by)
    \/ \E uid \in Principals : SelectVisitors(uid)

SpecVisitors == Init /\ [][NextVisitors]_vars

\* In the specifications below a call is answered and its response read
\* before the next request is made.
FrontDesk == [name |-> "front-desk", webhookType |-> "slack", isActive |-> TRUE,
              notifyOnCheckin |-> TRUE, notifyOnCheckout |-> FALSE]
Plain == <<97>>
TargetOrders == UNION {SeqOfSet(S) : S \in SUBSET webhook_settings}

\* gatekeeper of send-visitor-notification: an admin sets up roles, one
\* target and visitors, and any caller invokes the function
NextNotify ==
    \/ response = NoResponse /\ \E p \in Principals : SignUp(p, TRUE)
    \/ response = NoResponse /\ \E t \in Principals : InsertRole("u1", t, "user", TRUE)
    \/ response = NoResponse /\ \E t \in Principals : DeleteRoles("u1", t, TRUE)
    \/ response = NoResponse /\ addWebhook("u1", FrontDesk, TRUE)
    \/ response = NoResponse /\ \E uid \in Principals : InsertVisitor(uid, uid)
    \/ response = NoResponse /\
          \E token \in Tokens, visitor_id \in PayloadIds, eventType \in EventTypes,
             targets \in TargetOrders :
             sendVisitorNotification(token, visitor_id, eventType, Plain, targets, {})
    \/ response = NoResponse /\
          \E token \in Tokens, visitor_id \in PayloadIds, eventType \in EventTypes,
             targets \in TargetOrders :
             sendVisitorNotification_unchecked(token, visitor_id, eventType, Plain, targets, {})
    \/ receiveResponse

SpecNotify == Init /\ [][NextNotify]_vars

\* dispatch of send-visitor-notification: an admin maintains the targets and
\* a staff member invokes the function with every text, row order and
\* delivery outcome
NextDispatch ==
    \/ response = NoResponse /\ \E p \in Principals : SignUp(p, TRUE)
    \/ response = NoResponse /\ \E formData \in WebhookForms : addWebhook("u1", formData, TRUE)
    \/ response = NoResponse /\ \E id \in UsedWebhookIds, formData \in WebhookPatches :
          updateWebhook("u1", id, formData, TRUE)
    \/ response = NoResponse /\ \E id \in UsedWebhookIds : deleteWebhook("u1", id, TRUE)
    \/ response = NoResponse /\
          \E eventType \in EventTypes, text \in PayloadTexts, targets \in TargetOrders,
             failed \in SUBSET UsedWebhookIds :
             sendVisitorNotification("u1", NoId, eventType, text, targets, failed)
    \/ response = NoResponse /\
          \E eventType \in EventTypes, text \in PayloadTexts, targets \in TargetOrders,
             failed \in SUBSET UsedWebhookIds :
             sendVisitorNotification_unchecked(NoToken, NoId, eventType, text, targets, failed)
    \/ receiveResponse

SpecDispatch == Init /\ [][NextDispatch]_vars

\* visitor text submitted to send-visitor-email
HtmlTexts == {<<>>, <<97>>, <<Lt, 115, Gt, Amp, Quot, Apos>>}

\* send-visitor-email: an admin sets up roles and visitors, and any caller
\* invokes the function
NextEmail ==
    \/ response = NoResponse /\ \E p \in Principals : SignUp(p, TRUE)
    \/ response = NoResponse /\ \E t \in Principals : DeleteRoles("u1", t, TRUE)
    \/ response = NoResponse /\ \E uid \in Principals : InsertVisitor(uid, uid)
    \/ response = NoResponse /\
          \E token \in Tokens, visitor_id \in {NoId, 1}, eventType \in EventTypes,
             text \in HtmlTexts, hasEmail \in BOOLEAN, hasHostEmail \in BOOLEAN,
             mailOk \in BOOLEAN :
             sendVisitorEmail(token, visitor_id, eventType, text, hasEmail, hasHostEmail, mailOk)
    \/ response = NoResponse /\
          \E token \in Tokens, visitor_id \in {NoId, 1}, eventType \in EventTypes,
             text \in HtmlTexts, hasEmail \in BOOLEAN, hasHostEmail \in BOOLEAN,
             mailOk \in BOOLEAN :
             sendVisitorEmail_authenticated(token, visitor_id, eventType, text, hasEmail,
                                            hasHostEmail, mailOk)
    \/ receiveResponse

SpecEmail == Init /\ [][NextEmail]_vars

UsedPreRegIds == {r.id : r \in pre_registrations}

\* pre-registrations: hosts register visits; hosts, staff and others send
\* status updates and deletes
NextPreReg ==
    \/ response = NoResponse /\ \E p \in Principals : SignUp(p, TRUE)
    \/ response = NoResponse /\ \E t \in Principals : DeleteRoles("u1", t, TRUE)
    \/ response = NoResponse /\ \E p \in Principals : addPreRegistration(p)
    \/ response = NoResponse /\
          \E p \in Principals, id \in UsedPreRegIds, status \in PreRegStatus :
             updatePreRegistrationStatus(p, id, status)
    \/ response = NoResponse /\ \E p \in Principals, id \in UsedPreRegIds :
          cancelPreRegistration(p, id)
    \/ response = NoResponse /\ \E uid \in Principals, id \in UsedPreRegIds :
          DeletePreRegistration(uid, id)
    \/ receiveResponse

SpecPreReg == Init /\ [][NextPreReg]_vars

VisitorIds == {v.id : v \in visitors}
\* the admin and one receptionist, each with a session of the application
Sessions == {"u1", "u2"}

\* check-out: one visitor is checked in; sessions load the visitor list and
\* check the visitor out; the row is also updated and deleted by direct
\* requests
NextCheckout ==
    \/ \E p \in Sessions : SignUp(p, TRUE)
    \/ visitors = {} /\ \E uid \in Sessions : InsertVisitor(uid, uid)
    \/ \E p \in Sessions : fetchVisitors(p)
    \/ \E p \in Sessions, id \in VisitorIds : checkOutVisitor(p, id, TRUE, TRUE)
    \/ \E p \in Sessions, id \in VisitorIds : checkOutVisitor_unguarded(p, id, TRUE, TRUE)
    \/ \E uid \in Sessions, id \in VisitorIds, status \in VisitorStatus,
          check_out_time \in {NULL, toISOString(MaxClock)} :
          UpdateVisitor(uid, id, status, check_out_time)
    \/ \E uid \in Sessions, id \in VisitorIds : DeleteVisitor(uid, id)

SpecCheckout == Init /\ [][NextCheckout]_vars

\* check-in and check-out through the hooks: the admin makes the
\* receptionist an admin and loses its own role; both sessions load their
\* lists, check visitors in and out, with and without request errors
NextCheckIn ==
    \/ response = NoResponse /\ \E p \in Sessions : SignUp(p, TRUE)
    \/ response = NoResponse /\ InsertRole("u1", "u2", "admin", TRUE)
    \/ response = NoResponse /\ DeleteRoles("u2", "u1", TRUE)
    \/ response = NoResponse /\ \E p \in Sessions : fetchVisitors(p)
    \/ response = NoResponse /\ \E p \in Sessions, dbOk \in BOOLEAN, invokeOk \in BOOLEAN :
          addVisitor(p, dbOk, invokeOk)
    \/ response = NoResponse /\ \E p \in Sessions, dbOk \in BOOLEAN, invokeOk \in BOOLEAN :
          addVisitor_awaited(p, dbOk, invokeOk)
    \/ response = NoResponse /\
          \E p \in Sessions, id \in VisitorIds, dbOk \in BOOLEAN, invokeOk \in BOOLEAN :
             checkOutVisitor(p, id, dbOk, invokeOk)
    \/ response = NoResponse /\
          \E p \in Sessions, id \in VisitorIds, dbOk \in BOOLEAN, invokeOk \in BOOLEAN :
             checkOutVisitor_unguarded(p, id, dbOk, invokeOk)
    \/ receiveResponse

SpecCheckIn == Init /\ [][NextCheckIn]_vars

\* A later state of the system: u1, u2 and u3 have signed up and u1 has made
\* u2 an admin with updateUserRole.  The log and the histories are taken
\* from this state on: audit_logs holds the entries written after it.
InitTwoAdmins ==
    /\ auth_users = PrincipalIds
    /\ user_roles = {[user_id |-> "u1", role |-> "admin"],
                     [user_id |-> "u2", role |-> "admin"],
                     [user_id |-> "u3", role |-> "receptionist"]}
    /\ audit_logs = <<>>
    /\ webhook_settings = {}
    /\ next_webhook_id = 0
    /\ visitors = {}
    /\ session = [p \in Principals |-> Idle]
    /\ mutations = <<>>
    /\ last = Req("init", NULL, NULL, NULL, TRUE, FALSE, TRUE)
    /\ pre_registrations = {}
    /\ visitorsState = [p \in Principals |-> {}]
    /\ clock = 0
    /\ response = NoResponse
    /\ invocations = <<>>
    /\ tx = [p \in Principals |-> NoTx]

\* two admins use updateUserRole at the same time: the delete and the insert
\* of one call interleave with those of the other
NextRoleRace ==
    \/ \E p \in Principals, userId \in Principals, newRole \in app_role :
          updateUserRole_delete(p, userId, newRole, TRUE)
    \/ \E p \in Principals : updateUserRole_insert(p, TRUE)

SpecRoleRace == InitTwoAdmins /\ [][NextRoleRace]_vars

\* two admins manage roles at the same time: deletes served concurrently,
\* and inserts
TwoAdmins == {"u1", "u2"}
NextLockout ==
    \/ \E uid \in TwoAdmins, t \in Principals : DeleteRoles_begin(uid, t)
    \/ \E uid \in TwoAdmins : DeleteRoles_commit(uid, TRUE)
    \/ \E uid \in TwoAdmins, t \in TwoAdmins : InsertRole(uid, t, "admin", TRUE)

SpecLockout == InitTwoAdmins /\ [][NextLockout]_vars

\* sign-ups served at the same time
NextSignUpRace ==
    \/ \E p \in Principals : SignUp_count(p)
    \/ \E p \in Principals, auditOk \in BOOLEAN : SignUp_insert(p, auditOk)

SpecSignUpRace == Init /\ [][NextSignUpRace]_vars

\* ================================================================ claims
RoleAdded == user_roles' \ user_roles
RoleRemoved == user_roles \ user_roles'
NewEntries == Tail_(audit_logs', Len(audit_logs))
ClientRequest(req) == req.op \notin {"init", "signUp"}

\* C1: through the client-facing requests a role row of target T is inserted
\* or deleted by P only if P holds admin and T # P, no step replaces a row in
\* place, and an attempt by a non-admin or on oneself leaves user_roles unchanged.
C1_RoleMutationGuard ==
    [][ClientRequest(last') =>
          /\ (RoleAdded # {} \/ RoleRemoved # {}) =>
                /\ has_role(last'.actor, "admin")
                /\ \A row \in RoleAdded \cup RoleRemoved : row.user_id # last'.actor
                /\ (RoleAdded = {} \/ RoleRemoved = {})
          /\ (~last'.admin \/ last'.self) => user_roles' = user_roles
          /\ last'.op = "updateRole" => user_roles' = user_roles]_vars

C1_Witness ==
    /\ last.op \in {"insertRole", "deleteRoles"}
    /\ last.admin /\ last.self
    /\ \E row \in user_roles : row.role = "receptionist"

\* C2: updateUserRole(A, T, r) by an admin A on an existing principal T # A,
\* completed with no other request in between and no failed write, returns
\* true and the role read for T is r afterwards.
C2_UpdateUserRoleSetsRole ==
    (/\ last.op = "updateUserRole"
     /\ last.admin /\ ~last.self /\ last.known
     /\ ~last.dirty /\ ~last.fault)
    => /\ last.ok
       /\ getRole(last.target) = {last.role}

C2_Witness ==
    /\ last.op = "updateUserRole" /\ last.ok /\ ~last.dirty
    /\ last.removed = 0
    /\ last.role = "admin"

\* C3: each principal has at most one role row.
C3_OneRolePerPrincipal ==
    \A p \in Principals : Cardinality(RolesOf(p)) <= 1

\* C4: the audit log is append-only: every step leaves the existing entries
\* in place, whoever issues the request.
C4_AuditAppendOnly == [][IsPrefix(audit_logs, audit_logs')]_vars

C4_Witness ==
    /\ last.op \in {"deleteAuditLog", "updateAuditLog"}
    /\ last.admin
    /\ Len(audit_logs) >= 2

\* C5: every audit entry was written by the trigger of a role or webhook
\* mutation that took effect, with that mutation's action, actor and resource id.
C5_AuditOnlyFromMutations ==
    /\ Len(audit_logs) = Len(mutations)
    /\ \A i \in 1..Len(audit_logs) :
          i <= Len(mutations) =>
             /\ audit_logs[i].action = mutations[i].action
             /\ audit_logs[i].user_id = mutations[i].user_id
             /\ audit_logs[i].resource_id = mutations[i].resource_id

RoleEntry(action, actor, row) ==
    [user_id |-> actor, action |-> action, resource_type |-> "user_roles",
     resource_id |-> row.user_id,
     old_values |-> IF action = "role_removed"
                    THEN <<[role |-> row.role, user_id |-> row.user_id]>> ELSE <<>>,
     new_values |-> IF action = "role_assigned"
                    THEN <<[role |-> row.role, user_id |-> row.user_id]>> ELSE <<>>,
     metadata |-> <<[performed_by |-> actor]>>]

\* one entry per row inserted or deleted by the step, and nothing else
RowsAudited ==
    /\ Len(NewEntries) = Cardinality(RoleAdded) + Cardinality(RoleRemoved)
    /\ \A row \in RoleAdded :
          \E i \in 1..Len(NewEntries) :
             NewEntries[i] = RoleEntry("role_assigned", last'.actor, row)
    /\ \A row \in RoleRemoved :
          \E i \in 1..Len(NewEntries) :
             NewEntries[i] = RoleEntry("role_removed", last'.actor, row)

UpdateRun == Tail_(audit_logs', last'.logStart)
UpdateDone == last'.op = "updateUserRole" /\ last'.ok /\ ~last'.dirty

C7_NoUnauditedMutation ==
    [][/\ last'.fault =>
             /\ ~last'.ok
             /\ user_roles' = user_roles
             /\ webhook_settings' = webhook_settings
       /\ \A row \in RoleAdded \cup RoleRemoved :
             \E i \in 1..Len(NewEntries) :
                /\ NewEntries[i].resource_type = "user_roles"
                /\ NewEntries[i].resource_id = row.user_id
       /\ webhook_settings' # webhook_settings =>
             \E i \in 1..Len(NewEntries) :
                /\ NewEntries[i].resource_type = "webhook_settings"
                /\ NewEntries[i].resource_id = last'.target
       /\ \A row \in user_roles' :
             \E i \in 1..Len(audit_logs') :
                /\ audit_logs'[i].action = "role_assigned"
                /\ audit_logs'[i].new_values = <<[role |-> row.role, user_id |-> row.user_id]>>
       /\ \A w \in webhook_settings' :
             \E i \in 1..Len(audit_logs') :
                /\ audit_logs'[i].action = "webhook_created"
                /\ audit_logs'[i].resource_id = w.id]_vars

C7_Witness ==
    /\ last.fault
    /\ last.op \in {"updateWebhook", "deleteWebhook"}
    /\ webhook_settings # {}

\* C8: the onboarding trigger gives admin to the first principal created and
\* receptionist to every later one, whatever role mutations came in between,
\* and the first audit entry is the first principal's role_assigned with a
\* null actor.
C8_OnboardingRoles ==
    /\ (last.op = "signUp" /\ last.ok) =>
          RolesOf(last.target) =
             {[user_id |-> last.target,
               role |-> IF last.target = auth_users[1] THEN "admin" ELSE "receptionist"]}
    /\ Len(auth_users) >= 1 =>
          audit_logs[1] = RoleEntry("role_assigned", NULL,
                                    [user_id |-> auth_users[1], role |-> "admin"])

C8_Witness ==
    /\ last.op = "signUp" /\ last.ok
    /\ Len(auth_users) = 3
    /\ ~is_staff(auth_users[2])

\* C9: a read of visitors by an admin returns every record, and a read by a
\* non-admin staff principal S returns no record with created_by # S.
C9_VisitorReadAdminOrCreator ==
    last.op = "selectVisitors" =>
       \A v \in visitors :
          /\ has_role(last.actor, "admin") => v.id \in last.rows
          /\ (is_staff(last.actor) /\ ~has_role(last.actor, "admin")
                /\ v.created_by # last.actor) => v.id \notin last.rows

C9_Witness ==
    /\ last.op = "selectVisitors"
    /\ is_staff(last.actor) /\ ~has_role(last.actor, "admin")
    /\ \E v \in visitors : v.created_by = last.actor
    /\ \E v \in visitors : v.created_by \in Principals \ {last.actor}

\* C10: a read of visitors by P returns record V if and only if P is admin, or
\* P is staff and V.created_by = P.
C10_VisitorReadIffStaff ==
    last.op = "selectVisitors" =>
       \A v \in visitors :
          v.id \in last.rows <=>
             \/ has_role(last.actor, "admin")
             \/ (is_staff(last.actor) /\ v.created_by = last.actor)

\* ------------------------------------------------- notification dispatch
Notified == response.fn = "send-visitor-notification"
EnabledFor(w, e) ==
    w.is_active /\ IF e = "checkin" THEN w.notify_on_checkin ELSE w.notify_on_checkout
Count(seq, x) == Cardinality({i \in 1..Len(seq) : seq[i] = x})

\* C11: send-visitor-notification answers 401 to a request without a valid
\* bearer token, 403 to an authenticated principal that is neither admin nor
\* receptionist, and 404 to a request of a principal holding one staff role
\* whose visitor id matches no visitor row.
C11_NotificationFailsClosed ==
    Notified =>
       /\ ~ValidToken(response.token) => response.status = 401
       /\ ValidToken(response.token) /\ ~is_staff(response.token) => response.status = 403
       /\ (/\ ValidToken(response.token) /\ is_staff(response.token)
           /\ Cardinality(RolesOf(response.token)) = 1
           /\ response.visitor_id # NoId
           /\ ~\E v \in visitors : v.id = response.visitor_id) => response.status = 404

\* C13: when the gatekeeper checks pass and N targets are active and enabled
\* for the event, M of whose deliveries fail, the answer is 200, success:true,
\* with one result entry per target in the order of the targets, exactly M
\* of them success:false; with no such target the list is empty.
C13_OneResultPerTarget ==
    Notified =>
       LET enabled == {w \in webhook_settings : EnabledFor(w, response.eventType)}
           N == Cardinality(enabled)
           M == Cardinality(response.failed)
           gate == /\ ValidToken(response.token) /\ is_staff(response.token)
                   /\ Cardinality(RolesOf(response.token)) = 1
                   /\ response.visitor_id = NoId
       IN /\ gate => response.status = 200
          /\ response.status = 200 =>
                /\ response.success
                /\ Len(response.results) = N
                /\ {response.attempts[i] : i \in 1..Len(response.attempts)} = {w.id : w \in enabled}
                /\ \A i \in 1..Len(response.results) :
                      \E w \in enabled :
                         /\ w.id = response.attempts[i]
                         /\ response.results[i].webhook = w.name
                         /\ response.results[i].success = (w.id \notin response.failed)
                /\ Cardinality({i \in 1..Len(response.results) :
                                   ~response.results[i].success}) = M
                /\ N = 0 => response.results = <<>>

C13_Witness ==
    /\ Notified /\ response.status = 200
    /\ Len(response.results) = 2
    /\ ~response.results[1].success /\ response.results[2].success

\* C14: a dispatch attempt goes to target w exactly when w is active and its
\* flag for the event type is set: one attempt then, none otherwise.
C14_AttemptIffEnabled ==
    Notified /\ response.status = 200 =>
       \A w \in webhook_settings :
          Count(response.attempts, w.id) = IF EnabledFor(w, response.eventType) THEN 1 ELSE 0

C14_Witness ==
    /\ Notified /\ response.status = 200 /\ response.eventType = "checkout"
    /\ \E w \in webhook_settings :
          /\ w.is_active /\ w.notify_on_checkin /\ ~w.notify_on_checkout
          /\ Count(response.attempts, w.id) = 0
    /\ \E w \in webhook_settings : Count(response.attempts, w.id) = 1

\* C16: every visitor text field of a webhook message is free of control
\* characters (0x00-0x1F, 0x7F) and at most 500 characters long.
C16_WebhookTextSanitized ==
    Notified =>
       \A i \in 1..Len(response.messages) : \A f \in MessageFields :
          LET value == response.messages[i].fields[f]
          IN /\ Len(value) <= EscapeTextLimit
             /\ \A k \in 1..Len(value) : value[k] \notin ControlChars

\* ------------------------------------------------------------ visitor email
Emailed == response.fn = "send-visitor-email"

\* C12: send-visitor-email calls the mail provider only for a request whose
\* bearer token resolves to an admin or receptionist; without such a token
\* the answer is 401, for a non-staff principal 403, and no mail is sent.
C12_EmailOnlyForStaff ==
    Emailed =>
       /\ response.emails # <<>> => ValidToken(response.token) /\ is_staff(response.token)
       /\ ~ValidToken(response.token) => response.status = 401 /\ response.emails = <<>>
       /\ ValidToken(response.token) /\ ~is_staff(response.token) =>
             response.status = 403 /\ response.emails = <<>>

\* an ampersand at position k of value opens one of the five entities
OpensEntity(value, k) ==
    \E e \in Entities : k + Len(e) - 1 <= Len(value) /\ SubSeq(value, k, k + Len(e) - 1) = e

\* C15: in every HTML mail body each visitor field (name, company, purpose,
\* host name, badge id) carries none of < > " ' and no & other than the
\* start of an entity.
C15_HtmlFieldsEscaped ==
    Emailed =>
       \A i \in 1..Len(response.emails) :
          \A f \in DOMAIN response.emails[i].html :
             LET value == response.emails[i].html[f]
             IN \A k \in 1..Len(value) :
                   /\ value[k] \notin {Lt, Gt, Quot, Apos}
                   /\ value[k] = Amp => OpensEntity(value, k)

\* --------------------------------------------------------- pre-registrations
Terminal == {"checked-in", "cancelled", "expired"}

\* C17: the status of a pre-registration changes only from pending to
\* checked-in, cancelled or expired, and never changes once it is one of
\* these.
C17_PreRegStatusTransitions ==
    [][\A r \in pre_registrations : \A s \in pre_registrations' :
          (s.id = r.id /\ s.status # r.status) =>
             r.status = "pending" /\ s.status \in Terminal]_vars

PreRegRequest(fns) == response.fn \in fns /\ response.host # NULL
ByHost == response.actor = response.host
ByStaff == is_staff(response.actor)

\* C18: an update or a delete of a pre-registration by P takes effect if and
\* only if P is the row's host or P is staff.
C18_PreRegMutableByHostOrStaff ==
    PreRegRequest({"updatePreRegistrationStatus", "cancelPreRegistration",
                   "deletePreRegistration"}) =>
       (response.touched = {response.id} <=> (ByHost \/ ByStaff))

\* C18 amended: an update takes effect if and only if P is the row's host or
\* P is staff; a delete takes effect if and only if P is the row's host.
C18_UpdateByHostOrStaffDeleteByHost ==
    /\ PreRegRequest({"updatePreRegistrationStatus", "cancelPreRegistration"}) =>
          (response.touched = {response.id} <=> (ByHost \/ ByStaff))
    /\ PreRegRequest({"deletePreRegistration"}) =>
          (response.touched = {response.id} <=> ByHost)
    /\ response.fn \in {"updatePreRegistrationStatus", "cancelPreRegistration",
                        "deletePreRegistration"} => response.touched \subseteq {response.id}

C18_Witness ==
    /\ PreRegRequest({"deletePreRegistration"})
    /\ ByStaff /\ ~ByHost /\ response.touched = {}
    /\ \E r \in pre_registrations : r.id = response.id /\ r.status = "cancelled"

\* ------------------------------------------------------------- check-out
\* C19: in every reachable state each visitor record has its check-out
\* time set if and only if its status is checked-out.
C19_CheckOutTimeIffCheckedOut ==
    \A v \in visitors : (v.check_out_time # NULL) <=> (v.status = "checked-out")

\* C20: a visitor record is never deleted, and once it is checked-out no
\* checkOutVisitor call rewrites its check-out time or sends another
\* check-out notification for it.
C20_CheckedOutOnce ==
    [][\A v \in visitors :
          /\ \E w \in visitors' : w.id = v.id
          /\ v.status = "checked-out" =>
                /\ \A w \in visitors' : w.id = v.id => w.check_out_time = v.check_out_time
                /\ \/ invocations' = invocations
                   \/ invocations'[Len(invocations')].visitor_id # v.id]_vars

\* ------------------------------------------------------ role-change races
\* C22: the delete and the insert of updateUserRole take effect as one
\* unit: no state has the target's old role row removed and the new one not
\* yet inserted, and when the insert fails the target still holds its old
\* role.
C22_UpdateUserRoleAtomic ==
    [][\A p \in Principals :
          /\ (session'[p].pc = "deleted" /\ session'[p].removed > 0) =>
                \E row \in user_roles' : row.user_id = session'[p].userId
          /\ (/\ session[p].pc = "deleted" /\ session[p].removed > 0
              /\ session'[p].pc = "idle" /\ last'.op = "updateUserRole" /\ ~last'.ok) =>
                \E row \in user_roles' : row.user_id = session[p].userId]_vars

\* ------------------------------------------------------ visitor attribution
\* C30: a visitor record's created_by is the principal whose request
\* inserted it (or null), and no step changes the created_by of a record.
C30_CreatedByIsInserter ==
    [][/\ \A row \in visitors' \ visitors :
             (\A v \in visitors : v.id # row.id) =>
                row.created_by \in {last'.actor, NULL}
       /\ \A v \in visitors : \A w \in visitors' :
             w.id = v.id => w.created_by = v.created_by]_vars

\* ------------------------------------------------- gatekeeper decisions
\* C24: for a staff caller send-visitor-notification answers 404 only if the
\* payload's visitor id matches no visitor record, whoever created the
\* record.
C24_NotFoundOnlyIfNoRecord ==
    (/\ Notified
     /\ ValidToken(response.token) /\ is_staff(response.token)
     /\ response.status = 404)
    => ~\E v \in visitors : v.id = response.visitor_id

\* C27: a validly authenticated principal is answered 403 by
\* send-visitor-notification if and only if is_staff is false for it.
C27_StaffDecisionIsIsStaff ==
    (Notified /\ ValidToken(response.token))
    => (response.status = 403 <=> ~is_staff(response.token))

\* C23: send-visitor-notification reads the webhook configuration and sends
\* outbound requests only after the token check, the staff-role check and
\* the visitor check have passed; an invocation answered 401, 403 or 404
\* has read no configuration and sent no request.
C23_ChecksBeforeWebhooks ==
    Notified =>
       /\ response.status \in {401, 403, 404} =>
             ~response.webhooksRead /\ response.attempts = <<>>
       /\ (response.webhooksRead \/ response.attempts # <<>>) =>
             /\ ValidToken(response.token)
             /\ is_staff(response.token)
             /\ response.visitor_id # NoId =>
                   \E v \in visitors : v.id = response.visitor_id

\* C25: within one invocation every matching target gets exactly one
\* dispatch attempt, which ends delivered or failed and is not repeated; a
\* failed delivery to one target leaves the attempts to the other targets in
\* place, and the response carries the outcome of every attempt.
C25_AttemptsIndependent ==
    Notified /\ response.status = 200 =>
       LET n == Len(response.attempts)
       IN /\ Len(response.results) = n
          /\ \A i \in 1..n : \A j \in 1..n : i # j => response.attempts[i] # response.attempts[j]
          /\ \A w \in webhook_settings :
                EnabledFor(w, response.eventType) =>
                   \E i \in 1..n :
                      /\ response.attempts[i] = w.id
                      /\ response.results[i].success = (w.id \notin response.failed)

C25_Witness ==
    /\ Notified /\ response.status = 200
    /\ Len(response.attempts) = 2
    /\ response.attempts[1] \in response.failed
    /\ response.attempts[2] \notin response.failed
    /\ response.results[2].success

\* -------------------------------------------- notifications of the hooks
HookCall == response.fn \in {"addVisitor", "checkOutVisitor"}

\* C26: addVisitor and checkOutVisitor invoke the notification functions
\* only after the visitor insert / update has taken effect and invoke none
\* when it failed; a failing invocation does not change the returned result.
C26_NotifyAfterStateChange ==
    HookCall =>
       /\ response.invoked # <<>> => response.touched = {response.id}
       /\ response.error => response.invoked = <<>>
       /\ response.result = ~response.error

\* C21: when the updateUserRole calls of two admins on the same target have
\* both completed, the target holds exactly one role row, the one written by
\* the call that completed last.
C21_ConcurrentUpdateLeavesOneRole ==
    (/\ last.op = "updateUserRole" /\ last.ok
     /\ \A q \in Principals : session[q].pc = "idle")
    => /\ Cardinality(RolesOf(last.target)) = 1
       /\ getRole(last.target) = {last.role}

\* C28: once the first admin exists, some principal holds an admin role row
\* in every reachable state.
C28_AlwaysAnAdmin ==
    auth_users # <<>> => \E row \in user_roles : row.role = "admin"

\* C29: when sign-ups served at the same time have completed, exactly one
\* principal holds admin; the onboarding trigger never promotes two.
C29_OneAdminFromSignUp ==
    (Len(auth_users) >= 2 /\ \A p \in Principals : tx[p] = NoTx)
    => Cardinality({row \in user_roles : row.role = "admin"}) = 1
====
